---- MODULE Spec2Model ----
(***************************************************************************)
(* Model of scripts/collect_player_seasons.py: the season collection loop *)
(* with its two retrying fetchers, the per-season merge, the lag feature  *)
(* engine, the breakout labeler and the final save.                        *)
(*                                                                         *)
(* A DataFrame is [kind |-> "df", cols |-> set of column names,            *)
(* rows |-> sequence of rows], a row being a function from cols to cell    *)
(* values.  Python's None is the record None.  A numeric cell is a         *)
(* rational <<n, d>> in lowest terms with d > 0, NaN is << >>, and the     *)
(* two IEEE infinities are <<1, 0>> and <<-1, 0>>.  PLAYER_ID cells are    *)
(* plain integers, SEASON cells are the season string as its sequence of  *)
(* ASCII codes.                                                            *)
(***************************************************************************)
EXTENDS Integers, Sequences, FiniteSets, TLC

VARIABLES
    pc,                 \* position of main / collect_all_seasons
    seasons,            \* collect_all_seasons: seasons
    i,                  \* collect_all_seasons: 1-based index of the season in progress
    retry_count,        \* retry budget of the fetch call in progress
    attempt,            \* fetchers: loop variable of range(retry_count)
    outcomes,           \* fetchers: "ok" / "fail" of each attempt of the call in progress
    sleeps,             \* fetchers: the time.sleep back-off waits of the call in progress
    raw_df,             \* collect_league_stats: the frame of line 57, before the filter
    league_stats,       \* collect_all_seasons: league_stats
    estimated_metrics,  \* collect_all_seasons: estimated_metrics
    season_data,        \* collect_all_seasons: season_data
    all_data,           \* collect_all_seasons: all_data
    progress_file,      \* data/raw/player_seasons_progress.csv
    df,                 \* main: df
    output_file,        \* data/raw/player_seasons_with_breakouts.csv
    steps,              \* main: the steps 2..4 completed so far, in order
    exit_status         \* "none" while running, then the process exit status

vars == <<pc, seasons, i, retry_count, attempt, outcomes, sleeps, raw_df,
          league_stats, estimated_metrics, season_data, all_data,
          progress_file, df, output_file, steps, exit_status>>

---------------------------------------------------------------------------
(* Bounds of the model and constants of the program.                       *)

NumSeasons == 2
PanelSeasons == 3
MaxRetryCount == 4

StartYear == 1996
DefaultRetryCount == 3
MinMinutes == 500
RookieAge == 19
BackoffBase == 5
BreakoutThreshold == 5

Players == {1, 2}

---------------------------------------------------------------------------
(* Floating point cells.                                                   *)

None == [kind |-> "None"]
NaN == << >>
PosInf == <<1, 0>>
NegInf == <<-1, 0>>

IsNa(x) == x = NaN
IsInf(x) == x \in {PosInf, NegInf}
AbsInt(n) == IF n < 0 THEN -n ELSE n

RECURSIVE GCD(_, _)
GCD(a, b) == IF b = 0 THEN a ELSE GCD(b, a % b)

\* n / d in lowest terms, d # 0
Norm(n, d) ==
    LET g == GCD(AbsInt(n), AbsInt(d))
        s == IF d < 0 THEN -1 ELSE 1
    IN  <<(s * n) \div g, (s * d) \div g>>

Num(n) == <<n, 1>>

\* The operands below are finite or NaN: every quotient has its infinities
\* replaced by NaN before it is stored (lines 156, 270).
FAdd(a, b) ==
    IF IsNa(a) \/ IsNa(b) THEN NaN
    ELSE Norm(a[1] * b[2] + b[1] * a[2], a[2] * b[2])

FSub(a, b) ==
    IF IsNa(a) \/ IsNa(b) THEN NaN
    ELSE Norm(a[1] * b[2] - b[1] * a[2], a[2] * b[2])

FMul(a, b) ==
    IF IsNa(a) \/ IsNa(b) THEN NaN
    ELSE Norm(a[1] * b[1], a[2] * b[2])

\* IEEE division under np.errstate(ignore): x/0 is +-inf, 0/0 is NaN
FDiv(a, b) ==
    IF IsNa(a) \/ IsNa(b) THEN NaN
    ELSE IF b[1] = 0
         THEN IF a[1] > 0 THEN PosInf ELSE IF a[1] < 0 THEN NegInf ELSE NaN
         ELSE Norm(a[1] * b[2], a[2] * b[1])

FAbs(a) == IF IsNa(a) THEN NaN ELSE <<AbsInt(a[1]), a[2]>>

\* a >= b; any comparison with NaN is False
FGe(a, b) == ~IsNa(a) /\ ~IsNa(b) /\ a[1] * b[2] >= b[1] * a[2]

\* Series.replace([np.inf, -np.inf], np.nan)
ReplaceInf(x) == IF IsInf(x) THEN NaN ELSE x

\* Series.clip(lower=lo)
ClipLower(x, lo) == IF IsNa(x) THEN NaN ELSE IF FGe(x, lo) THEN x ELSE lo

\* Series.notna()
NotNa(x) == ~IsNa(x)

---------------------------------------------------------------------------
(* Season strings.                                                         *)

\* str(n) for n >= 0, as ASCII codes
RECURSIVE Str(_)
Str(n) == IF n < 10 THEN <<48 + n>> ELSE Str(n \div 10) \o <<48 + (n % 10)>>

\* f"{year}-{str(year+1)[2:]}"
SeasonStr(year) ==
    LET nxt == Str(year + 1)
    IN  Str(year) \o <<45>> \o SubSeq(nxt, 3, Len(nxt))

\* range(start_year, end_year) mapped through SeasonStr
generate_season_list(start_year, end_year) ==
    IF end_year <= start_year THEN << >>
    ELSE [k \in 1..(end_year - start_year) |-> SeasonStr(start_year + k - 1)]

\* Python's str <: lexicographic on the code points, a proper prefix first
RECURSIVE StrLess(_, _)
StrLess(a, b) ==
    IF b = << >> THEN FALSE
    ELSE IF a = << >> THEN TRUE
    ELSE IF Head(a) # Head(b) THEN Head(a) < Head(b)
    ELSE StrLess(Tail(a), Tail(b))

---------------------------------------------------------------------------
(* DataFrames.                                                             *)

Frame(cols, rows) == [kind |-> "df", cols |-> cols, rows |-> rows]

IsFrame(t) == t.kind = "df"

\* df[cols] for a list of columns that all exist
Project(t, keep) ==
    Frame(keep, [k \in 1..Len(t.rows) |-> [c \in keep |-> t.rows[k][c]]])

\* pd.concat(frames, ignore_index=True): union of the columns, NaN where a
\* frame lacks one
RECURSIVE ConcatCols(_)
ConcatCols(frames) ==
    IF frames = << >> THEN {} ELSE Head(frames).cols \cup ConcatCols(Tail(frames))

RECURSIVE ConcatRows(_, _)
ConcatRows(frames, cols) ==
    IF frames = << >> THEN << >>
    ELSE LET t == Head(frames)
         IN  [k \in 1..Len(t.rows) |->
                 [c \in cols |-> IF c \in t.cols THEN t.rows[k][c] ELSE NaN]]
             \o ConcatRows(Tail(frames), cols)

Concat(frames) == Frame(ConcatCols(frames), ConcatRows(frames, ConcatCols(frames)))

PlayerIds(t) == {t.rows[k]["PLAYER_ID"] : k \in 1..Len(t.rows)}

---------------------------------------------------------------------------
(* The stats provider.  Each call raises or answers with one frame; the    *)
(* frames enumerated here carry a few of the provider's columns, list the *)
(* players in descending PLAYER_ID order and may lack allow-listed columns.*)

ApiError == [kind |-> "Exception"]

LeagueResponseCols == {"PLAYER_ID", "TEAM_ID", "AGE", "GP", "MIN", "FGA", "FTA", "PTS"}
MetricsResponseCols == {"PLAYER_ID", "GP", "E_NET_RATING"}

\* Player 1 plays 490 or 1000 minutes, player 2 exactly 500
MinutesPerGame(p, kind) ==
    IF p = 1 THEN (IF kind = "low" THEN Num(10) ELSE Norm(25, 2)) ELSE Num(10)

GamesPlayed(p, kind) ==
    IF p = 1 THEN (IF kind = "low" THEN 49 ELSE 80) ELSE 50

LeagueRow(p, s, kind) ==
    [PLAYER_ID |-> p,
     TEAM_ID   |-> Num(100 + p),
     AGE       |-> Num(IF p = 1 THEN 17 + s ELSE 25 + s),
     GP        |-> Num(GamesPlayed(p, kind)),
     MIN       |-> MinutesPerGame(p, kind),
     FGA       |-> Num(IF p = 1 THEN s - 1 ELSE s),
     FTA       |-> Num(p - 1),
     PTS       |-> Num(10 * s + p)]

MetricsRow(p, enet) ==
    [PLAYER_ID |-> p, GP |-> Num(50), E_NET_RATING |-> enet]

\* The ids in descending order
Descending(ids) ==
    [k \in 1..Cardinality(ids) |->
        CHOOSE p \in ids : Cardinality({q \in ids : q >= p}) = k]

LeagueResponse(s, kinds, dropped) ==
    LET cols == LeagueResponseCols \ dropped
        order == Descending({p \in Players : kinds[p] # "absent"})
    IN  Frame(cols, [k \in 1..Len(order) |->
                        [c \in cols |-> LeagueRow(order[k], s, kinds[order[k]])[c]]])

MetricsResponse(ids, enet, dropped) ==
    LET cols == MetricsResponseCols \ dropped
        order == Descending(ids)
    IN  Frame(cols, [k \in 1..Len(order) |->
                        [c \in cols |-> MetricsRow(order[k], enet[order[k]])[c]]])

\* What LeagueDashPlayerStats may answer for season number s
LeagueResponses(s) ==
    {LeagueResponse(s, kinds, dropped) :
        kinds \in {k \in [Players -> {"absent", "low", "ok"}] : k[2] # "low"},
        dropped \in {{}, {"AGE"}, {"MIN"}}}

\* What PlayerEstimatedMetrics may answer for season number s
MetricsResponses(s) ==
    {MetricsResponse(ids, [p \in Players |-> Num(IF p = 1 THEN 6 * s - 8 ELSE 8)], dropped) :
        ids \in SUBSET Players,
        dropped \in {{}, {"E_NET_RATING"}}}

---------------------------------------------------------------------------
(* collect_league_stats, collect_estimated_metrics                         *)

\* Variant: the filter with > in place of >=
KeepsMinutesStrict(r) ==
    LET total == FMul(r["MIN"], r["GP"])
    IN  FGe(total, Num(MinMinutes)) /\ total # Num(MinMinutes)

\* df['MIN'] * df['GP'] >= 500
KeepsMinutes(r) == FGe(FMul(r["MIN"], r["GP"]), Num(MinMinutes))

\* df[df['MIN'] * df['GP'] >= 500].copy()
MinutesFilter(t) == Frame(t.cols, SelectSeq(t.rows, KeepsMinutes))

\* line 60 raises KeyError, inside the try, when a column is missing
FilterRaises(t) == ~({"MIN", "GP"} \subseteq t.cols)

\* Variant: the back-off test without the - 1
ShouldRetryOffByOne(a, n) == a < n

\* attempt < retry_count - 1
ShouldRetry(a, n) == a < n - 1

\* time.sleep(5 * (attempt + 1))
Backoff(a) == BackoffBase * (a + 1)

fetch_locals == <<attempt, outcomes, sleeps>>
loop_state == <<seasons, i, retry_count, all_data, progress_file>>
main_state == <<df, output_file, steps, exit_status>>

\* The except branch of either fetcher: sleep and go round the for loop, or
\* return None (line 71 / 103; line 73 / 105 when the loop runs out)
FailedAttempt(here, next, result) ==
    /\ outcomes' = Append(outcomes, "fail")
    /\ IF ShouldRetry(attempt, retry_count)
       THEN /\ sleeps' = Append(sleeps, Backoff(attempt))
            /\ IF attempt + 1 < retry_count
               THEN attempt' = attempt + 1 /\ pc' = here /\ result' = result
               ELSE attempt' = attempt /\ pc' = next /\ result' = None
       ELSE /\ sleeps' = sleeps
            /\ attempt' = attempt /\ pc' = next /\ result' = None

CallCollectLeagueStats ==
    /\ pc = "call_league"
    /\ pc' = "league_attempt"
    /\ attempt' = 0 /\ outcomes' = << >> /\ sleeps' = << >>
    /\ UNCHANGED <<raw_df, league_stats, estimated_metrics, season_data>>
    /\ UNCHANGED <<loop_state, main_state>>

LeagueAttemptReturns ==
    /\ pc = "league_attempt"
    /\ \E resp \in LeagueResponses(i) :
          /\ ~FilterRaises(resp)
          /\ raw_df' = resp
          /\ league_stats' = MinutesFilter(resp)
    /\ outcomes' = Append(outcomes, "ok")
    /\ pc' = "call_metrics"
    /\ UNCHANGED <<attempt, sleeps, estimated_metrics, season_data>>
    /\ UNCHANGED <<loop_state, main_state>>

LeagueAttemptRaises ==
    /\ pc = "league_attempt"
    /\ \E resp \in LeagueResponses(i) \cup {ApiError} :
          /\ IsFrame(resp) => FilterRaises(resp)
          /\ raw_df' = IF IsFrame(resp) THEN resp ELSE raw_df
    /\ FailedAttempt("league_attempt", "call_metrics", league_stats)
    /\ UNCHANGED <<estimated_metrics, season_data>>
    /\ UNCHANGED <<loop_state, main_state>>

CallCollectEstimatedMetrics ==
    /\ pc = "call_metrics"
    /\ pc' = "metrics_attempt"
    /\ attempt' = 0 /\ outcomes' = << >> /\ sleeps' = << >>
    /\ UNCHANGED <<raw_df, league_stats, estimated_metrics, season_data>>
    /\ UNCHANGED <<loop_state, main_state>>

MetricsAttemptReturns ==
    /\ pc = "metrics_attempt"
    /\ \E resp \in MetricsResponses(i) : estimated_metrics' = resp
    /\ outcomes' = Append(outcomes, "ok")
    /\ pc' = "merge"
    /\ UNCHANGED <<attempt, sleeps, raw_df, league_stats, season_data>>
    /\ UNCHANGED <<loop_state, main_state>>

MetricsAttemptRaises ==
    /\ pc = "metrics_attempt"
    /\ FailedAttempt("metrics_attempt", "merge", estimated_metrics)
    /\ UNCHANGED <<raw_df, league_stats, season_data>>
    /\ UNCHANGED <<loop_state, main_state>>

---------------------------------------------------------------------------
(* merge_season_data                                                       *)

league_cols ==
    {"PLAYER_ID", "PLAYER_NAME", "TEAM_ABBREVIATION", "AGE", "GP", "W", "L",
     "MIN", "FGM", "FGA", "FG_PCT", "FG3M", "FG3A", "FG3_PCT",
     "FTM", "FTA", "FT_PCT", "OREB", "DREB", "REB", "AST", "TOV", "STL", "BLK",
     "BLKA", "PF", "PFD", "PTS", "PLUS_MINUS"}

metrics_cols ==
    {"PLAYER_ID", "E_OFF_RATING", "E_DEF_RATING", "E_NET_RATING",
     "E_AST_RATIO", "E_OREB_PCT", "E_DREB_PCT", "E_REB_PCT",
     "E_TOV_PCT", "E_USG_PCT", "E_PACE"}

\* [col for col in wanted if col in frame.columns], then frame[...].copy()
Subset(t, wanted) == Project(t, wanted \cap t.cols)

\* df[name] = values, a Series aligned with the rows of df
WithColumn(t, name, values) ==
    Frame(t.cols \cup {name},
          [k \in 1..Len(t.rows) |->
              [c \in t.cols \cup {name} |->
                  IF c = name THEN values[k] ELSE t.rows[k][c]]])

\* The rows of pd.merge(l, r, on='PLAYER_ID', how='inner'), in the order of
\* the left keys
RECURSIVE InnerJoinRows(_, _, _)
InnerJoinRows(lrows, r, cols) ==
    IF lrows = << >> THEN << >>
    ELSE LET l == Head(lrows)
             Matches(x) == x["PLAYER_ID"] = l["PLAYER_ID"]
             ms == SelectSeq(r.rows, Matches)
         IN  [k \in 1..Len(ms) |->
                 [c \in cols |-> IF c \in DOMAIN l THEN l[c] ELSE ms[k][c]]]
             \o InnerJoinRows(Tail(lrows), r, cols)

\* Variant: how='left'
RECURSIVE LeftJoinRows(_, _, _)
LeftJoinRows(lrows, r, cols) ==
    IF lrows = << >> THEN << >>
    ELSE LET l == Head(lrows)
             Matches(x) == x["PLAYER_ID"] = l["PLAYER_ID"]
             ms == SelectSeq(r.rows, Matches)
         IN  (IF ms = << >>
              THEN <<[c \in cols |-> IF c \in DOMAIN l THEN l[c] ELSE NaN]>>
              ELSE [k \in 1..Len(ms) |->
                       [c \in cols |-> IF c \in DOMAIN l THEN l[c] ELSE ms[k][c]]])
             \o LeftJoinRows(Tail(lrows), r, cols)

MergeLeft(l, r) == Frame(l.cols \cup r.cols, LeftJoinRows(l.rows, r, l.cols \cup r.cols))

MergeInner(l, r) == Frame(l.cols \cup r.cols, InnerJoinRows(l.rows, r, l.cols \cup r.cols))

\* PTS / (2 * (FGA + 0.44 * FTA)), infinities replaced by NaN
TrueShooting(r) ==
    ReplaceInf(FDiv(r["PTS"],
                    FMul(Num(2), FAdd(r["FGA"], FMul(Norm(44, 100), r["FTA"])))))

\* (AGE - 19).clip(lower=0)
Experience(r) == ClipLower(FSub(r["AGE"], Num(RookieAge)), Num(0))

\* pd.merge raises KeyError without the key, merged['AGE'] without AGE
MergeRaises(l, m) ==
    /\ l # None /\ m # None
    /\ \/ "PLAYER_ID" \notin l.cols
       \/ "PLAYER_ID" \notin m.cols
       \/ "AGE" \notin l.cols

\* The value returned when nothing is raised
merge_season_data(l, m, season) ==
    IF l = None \/ m = None THEN None
    ELSE LET merged == MergeInner(Subset(l, league_cols), Subset(m, metrics_cols))
             n == Len(merged.rows)
             tagged == WithColumn(merged, "SEASON", [k \in 1..n |-> season])
             shot == IF {"FGA", "FTA", "PTS"} \subseteq tagged.cols
                     THEN WithColumn(tagged, "TS_PCT",
                                     [k \in 1..n |-> TrueShooting(tagged.rows[k])])
                     ELSE tagged
         IN  WithColumn(shot, "EXPERIENCE", [k \in 1..n |-> Experience(shot.rows[k])])

---------------------------------------------------------------------------
(* collect_all_seasons                                                     *)

\* Variant: only the season just merged is written
ProgressLastOnly(data) == data[Len(data)]

\* pd.concat(all_data, ignore_index=True) written with to_csv
ProgressSnapshot(data) == Concat(data)

\* line 198; a KeyError leaves collect_all_seasons and main
MergeSeason ==
    /\ pc = "merge"
    /\ IF MergeRaises(league_stats, estimated_metrics)
       THEN /\ pc' = "crashed"
            /\ exit_status' = "1"
            /\ season_data' = season_data
       ELSE /\ pc' = "record"
            /\ exit_status' = exit_status
            /\ season_data' = merge_season_data(league_stats, estimated_metrics, seasons[i])
    /\ attempt' = 0 /\ outcomes' = << >> /\ sleeps' = << >>
    /\ UNCHANGED <<raw_df, league_stats, estimated_metrics>>
    /\ UNCHANGED <<loop_state, df, output_file, steps>>

\* lines 200-215, and the step of the for loop
RecordSeason ==
    /\ pc = "record"
    /\ IF season_data # None
       THEN /\ all_data' = Append(all_data, season_data)
            /\ progress_file' = ProgressSnapshot(all_data')
       ELSE UNCHANGED <<all_data, progress_file>>
    /\ i' = i + 1
    /\ pc' = IF i + 1 <= Len(seasons) THEN "call_league" ELSE "collected"
    /\ raw_df' = None /\ league_stats' = None
    /\ estimated_metrics' = None /\ season_data' = None
    /\ UNCHANGED <<seasons, retry_count, fetch_locals, main_state>>

\* lines 217-231, and main lines 351-353
FinishCollection ==
    /\ pc = "collected"
    /\ IF Len(all_data) = 0
       THEN pc' = "exited" /\ exit_status' = "1" /\ df' = df
       ELSE pc' = "lag" /\ exit_status' = exit_status /\ df' = Concat(all_data)
    /\ UNCHANGED <<raw_df, league_stats, estimated_metrics, season_data>>
    /\ UNCHANGED <<loop_state, fetch_locals, output_file, steps>>

---------------------------------------------------------------------------
(* calculate_lag_features                                                  *)

lag_metrics ==
    {"E_NET_RATING", "E_OFF_RATING", "E_DEF_RATING",
     "PTS", "AST", "REB", "MIN", "GP",
     "TS_PCT", "E_USG_PCT", "FG_PCT", "FG3_PCT"}

\* Order of sort_values(['PLAYER_ID', 'SEASON'])
RowLess(a, b) ==
    \/ a["PLAYER_ID"] < b["PLAYER_ID"]
    \/ a["PLAYER_ID"] = b["PLAYER_ID"] /\ StrLess(a["SEASON"], b["SEASON"])

RECURSIVE InsertRow(_, _)
InsertRow(sorted, r) ==
    IF sorted = << >> THEN <<r>>
    ELSE IF RowLess(r, Head(sorted)) THEN <<r>> \o sorted
    ELSE <<Head(sorted)>> \o InsertRow(Tail(sorted), r)

RECURSIVE SortRows(_)
SortRows(rows) ==
    IF rows = << >> THEN << >>
    ELSE InsertRow(SortRows(SubSeq(rows, 1, Len(rows) - 1)), rows[Len(rows)])

\* df.sort_values(['PLAYER_ID', 'SEASON']).copy()
SortValues(t) == Frame(t.cols, SortRows(t.rows))

\* Variant: df[metric].shift(n) without the groupby
UngroupedShift(rows, k, metric, n) ==
    IF k - n < 1 THEN NaN ELSE rows[k - n][metric]

\* df.groupby('PLAYER_ID')[metric].shift(n), at row k: the cell n rows up
\* within the rows of the same PLAYER_ID, NaN when there are fewer
GroupShift(rows, k, metric, n) ==
    LET group == {j \in 1..(k - 1) : rows[j]["PLAYER_ID"] = rows[k]["PLAYER_ID"]}
    IN  IF Cardinality(group) < n THEN NaN
        ELSE rows[CHOOSE j \in group : Cardinality({x \in group : x >= j}) = n][metric]

\* Variant: the division without .abs()
GrowthRateSigned(change, prev) == ReplaceInf(FDiv(change, prev))

\* df[CHANGE_1YR] / df[PREV].abs(), infinities replaced by NaN
GrowthRate(change, prev) == ReplaceInf(FDiv(change, FAbs(prev)))

\* The first loop (lines 258-260)
AddShifts(t, metrics) ==
    LET prevs == {m \o "_PREV" : m \in metrics}
        olds  == {m \o "_2YRS_AGO" : m \in metrics}
        cols  == t.cols \cup prevs \cup olds
    IN  Frame(cols,
              [k \in 1..Len(t.rows) |->
                  [c \in cols |->
                      IF c \in prevs
                      THEN GroupShift(t.rows, k, CHOOSE m \in metrics : c = m \o "_PREV", 1)
                      ELSE IF c \in olds
                      THEN GroupShift(t.rows, k, CHOOSE m \in metrics : c = m \o "_2YRS_AGO", 2)
                      ELSE t.rows[k][c]]])

\* The second loop (lines 263-270)
AddChanges(t, metrics) ==
    LET changes == {m \o "_CHANGE_1YR" : m \in metrics}
        growths == {m \o "_GROWTH_RATE" : m \in metrics}
        cols    == t.cols \cup changes \cup growths
        Change(r, m) == FSub(r[m], r[m \o "_PREV"])
    IN  Frame(cols,
              [k \in 1..Len(t.rows) |->
                  [c \in cols |->
                      IF c \in changes
                      THEN Change(t.rows[k], CHOOSE m \in metrics : c = m \o "_CHANGE_1YR")
                      ELSE IF c \in growths
                      THEN LET m == CHOOSE x \in metrics : c = x \o "_GROWTH_RATE"
                           IN  GrowthRate(Change(t.rows[k], m), t.rows[k][m \o "_PREV"])
                      ELSE t.rows[k][c]]])

calculate_lag_features(t) ==
    LET sorted == SortValues(t)
        present == {m \in lag_metrics : m \in sorted.cols}
    IN  AddChanges(AddShifts(sorted, present), present)

---------------------------------------------------------------------------
(* label_breakouts                                                         *)

\* df['E_NET_RATING_PREV'].notna()
has_prev_data(r) == NotNa(r["E_NET_RATING_PREV"])

\* Variant: > threshold
breakout_mask_strict(r, threshold) ==
    /\ NotNa(r["E_NET_RATING_PREV"])
    /\ FGe(r["E_NET_RATING_CHANGE_1YR"], threshold)
    /\ r["E_NET_RATING_CHANGE_1YR"] # threshold

\* has_prev_data & (df['E_NET_RATING_CHANGE_1YR'] >= threshold)
breakout_mask(r, threshold) ==
    has_prev_data(r) /\ FGe(r["E_NET_RATING_CHANGE_1YR"], threshold)

\* Variant: the change copied on every row
BreakoutMagnitudeUnmasked(r) == r["E_NET_RATING_CHANGE_1YR"]

\* df.loc[has_prev_data, 'BREAKOUT_MAGNITUDE'] = the change; 0.0 stays elsewhere
BreakoutMagnitude(r) ==
    IF has_prev_data(r) THEN r["E_NET_RATING_CHANGE_1YR"] ELSE r["BREAKOUT_MAGNITUDE"]

\* lines 291-292
InitLabels(t) ==
    WithColumn(WithColumn(t, "BREAKOUT", [k \in 1..Len(t.rows) |-> 0]),
               "BREAKOUT_MAGNITUDE", [k \in 1..Len(t.rows) |-> Num(0)])

\* line 295 raises KeyError when no season had an E_NET_RATING column
LabelRaises(t) == "E_NET_RATING_PREV" \notin t.cols

label_breakouts(t, threshold) ==
    LET n == Len(t.rows)
        zeroed == InitLabels(t)
        sized == WithColumn(zeroed, "BREAKOUT_MAGNITUDE",
                            [k \in 1..n |-> BreakoutMagnitude(zeroed.rows[k])])
    IN  WithColumn(sized, "BREAKOUT",
                   [k \in 1..n |-> IF breakout_mask(sized.rows[k], threshold)
                                    THEN 1 ELSE sized.rows[k]["BREAKOUT"]])

---------------------------------------------------------------------------
(* main, steps 2 to 4                                                      *)

collect_locals == <<raw_df, league_stats, estimated_metrics, season_data>>

CalculateLagFeatures ==
    /\ pc = "lag"
    /\ df' = calculate_lag_features(df)
    /\ steps' = Append(steps, "lag")
    /\ pc' = "label"
    /\ UNCHANGED <<loop_state, fetch_locals, collect_locals, output_file, exit_status>>

LabelBreakouts ==
    /\ pc = "label"
    /\ IF LabelRaises(df)
       THEN /\ df' = InitLabels(df)
            /\ steps' = steps
            /\ pc' = "crashed"
            /\ exit_status' = "1"
       ELSE /\ df' = label_breakouts(df, Num(BreakoutThreshold))
            /\ steps' = Append(steps, "label")
            /\ pc' = "save"
            /\ exit_status' = exit_status
    /\ UNCHANGED <<loop_state, fetch_locals, collect_locals, output_file>>

\* save_dataset and the normal end of main
SaveDataset ==
    /\ pc = "save"
    /\ output_file' = df
    /\ steps' = Append(steps, "save")
    /\ pc' = "done"
    /\ exit_status' = "0"
    /\ UNCHANGED <<loop_state, fetch_locals, collect_locals, df>>

---------------------------------------------------------------------------
(* The run of main: seasons StartYear .. this year.                        *)

Init ==
    /\ pc = "call_league"
    /\ \E n \in 1..NumSeasons : seasons = generate_season_list(StartYear, StartYear + n)
    /\ i = 1
    /\ retry_count = DefaultRetryCount
    /\ attempt = 0 /\ outcomes = << >> /\ sleeps = << >>
    /\ raw_df = None /\ league_stats = None
    /\ estimated_metrics = None /\ season_data = None
    /\ all_data = << >>
    /\ progress_file = None
    /\ df = None
    /\ output_file = None
    /\ steps = << >>
    /\ exit_status = "none"

Next ==
    \/ CallCollectLeagueStats
    \/ LeagueAttemptReturns
    \/ LeagueAttemptRaises
    \/ CallCollectEstimatedMetrics
    \/ MetricsAttemptReturns
    \/ MetricsAttemptRaises
    \/ MergeSeason
    \/ RecordSeason
    \/ FinishCollection
    \/ CalculateLagFeatures
    \/ LabelBreakouts
    \/ SaveDataset

Spec == Init /\ [][Next]_vars

---------------------------------------------------------------------------
(* The two fetchers on their own, for every retry budget 1..MaxRetryCount. *)
(* A call to the provider returns or raises, so an attempt in progress is  *)
(* always followed by its outcome: weak fairness of the fetch steps.       *)

FetchInit ==
    /\ pc = "call_league"
    /\ seasons = generate_season_list(StartYear, StartYear + 1)
    /\ i = 1
    /\ retry_count \in 1..MaxRetryCount
    /\ attempt = 0 /\ outcomes = << >> /\ sleeps = << >>
    /\ raw_df = None /\ league_stats = None
    /\ estimated_metrics = None /\ season_data = None
    /\ all_data = << >>
    /\ progress_file = None
    /\ df = None
    /\ output_file = None
    /\ steps = << >>
    /\ exit_status = "none"

FetchNext ==
    \/ CallCollectLeagueStats
    \/ LeagueAttemptReturns
    \/ LeagueAttemptRaises
    \/ CallCollectEstimatedMetrics
    \/ MetricsAttemptReturns
    \/ MetricsAttemptRaises

FetchSpec == FetchInit /\ [][FetchNext]_vars /\ WF_vars(FetchNext)

---------------------------------------------------------------------------
(* Steps 2 to 4 of main on every panel that PanelSeasons merged seasons of *)
(* two players can make: player 1 is absent from a season or has one of    *)
(* the E_NET_RATING values of PanelRatings, player 2 is absent or has 8.   *)

PanelRatings == {NaN, Num(-5), Num(0), Num(3), Num(8)}

PanelChoices ==
    {c \in [ids : SUBSET Players, enet : PanelRatings] : 1 \notin c.ids => c.enet = NaN}

PanelSeason(s, c, dropped, season) ==
    merge_season_data(
        MinutesFilter(LeagueResponse(s, [p \in Players |-> IF p \in c.ids THEN "ok" ELSE "absent"], {})),
        MetricsResponse(c.ids, [p \in Players |-> IF p = 1 THEN c.enet ELSE Num(8)], dropped),
        season)

FeatureInit ==
    /\ pc = "lag"
    /\ seasons = generate_season_list(StartYear, StartYear + PanelSeasons)
    /\ i = PanelSeasons + 1
    /\ retry_count = DefaultRetryCount
    /\ attempt = 0 /\ outcomes = << >> /\ sleeps = << >>
    /\ raw_df = None /\ league_stats = None
    /\ estimated_metrics = None /\ season_data = None
    /\ \E dropped \in {{}, {"E_NET_RATING"}} :
          \E choice \in [1..PanelSeasons ->
                            IF dropped = {} THEN PanelChoices
                            ELSE {c \in PanelChoices : c.enet = NaN}] :
             all_data = [s \in 1..PanelSeasons |-> PanelSeason(s, choice[s], dropped, seasons[s])]
    /\ progress_file = ProgressSnapshot(all_data)
    /\ df = Concat(all_data)
    /\ output_file = None
    /\ steps = << >>
    /\ exit_status = "none"

FeatureNext ==
    \/ CalculateLagFeatures
    \/ LabelBreakouts
    \/ SaveDataset

FeatureSpec == FeatureInit /\ [][FeatureNext]_vars

---------------------------------------------------------------------------
(* Properties.                                                             *)

LagDone == Len(steps) >= 1
LabelDone == Len(steps) >= 2

Rows == 1..Len(df.rows)
Cell(k, c) == df.rows[k][c]

\* The lagged metrics of the panel: the columns the merge gave it
Lagged == {m \in lag_metrics : m \in ConcatCols(all_data)}

\* The rows of the same player with a smaller SEASON token than row k
Earlier(k) ==
    {j \in Rows : /\ Cell(j, "PLAYER_ID") = Cell(k, "PLAYER_ID")
                  /\ StrLess(Cell(j, "SEASON"), Cell(k, "SEASON"))}

\* The row of S with the greatest SEASON token
Latest(S) ==
    CHOOSE j \in S : \A x \in S : x = j \/ StrLess(Cell(x, "SEASON"), Cell(j, "SEASON"))

\* C1: after calculate_lag_features, on every row and for every lagged
\* metric, _PREV is the metric of the same player's row with the next
\* smaller SEASON token, whatever the gap, and _2YRS_AGO that of the row
\* before it; they are missing when the player has no such row.
C1_PositionalLag ==
    LagDone =>
        LET metrics == Lagged
        IN  \A k \in Rows :
                LET before == Earlier(k)
                    last == IF before = {} THEN 0 ELSE Latest(before)
                    rest == before \ {last}
                    second == IF rest = {} THEN 0 ELSE Latest(rest)
                IN  \A m \in metrics :
                        /\ Cell(k, m \o "_PREV") = IF last = 0 THEN NaN ELSE Cell(last, m)
                        /\ Cell(k, m \o "_2YRS_AGO") = IF second = 0 THEN NaN ELSE Cell(second, m)

\* Player 1 skipped the second season, player 2 played all three
C1_Witness ==
    /\ LagDone
    /\ PanelSeasons >= 3
    /\ \E a, b, c \in Rows :
          /\ Cell(a, "PLAYER_ID") = 1 /\ Cell(a, "SEASON") = seasons[1]
          /\ Cell(b, "PLAYER_ID") = 1 /\ Cell(b, "SEASON") = seasons[3]
          /\ Earlier(b) = {a}
          /\ Cell(a, "E_NET_RATING") = Num(3)
          /\ Cell(b, "E_NET_RATING_PREV") = Num(3)
          /\ Cell(b, "E_NET_RATING_2YRS_AGO") = NaN
          /\ Cell(c, "PLAYER_ID") = 2 /\ Cell(c, "SEASON") = seasons[3]
          /\ Cell(c, "PTS_PREV") = Num(22)
          /\ Cell(c, "PTS_2YRS_AGO") = Num(12)

\* C2: after label_breakouts with threshold 5, BREAKOUT is 1 exactly on
\* the rows whose E_NET_RATING_PREV is present and whose E_NET_RATING
\* exceeds it by 5 or more, and 0 on every other row.
C2_BreakoutRule ==
    LabelDone =>
        \A k \in Rows :
            LET cur == Cell(k, "E_NET_RATING")
                prev == Cell(k, "E_NET_RATING_PREV")
                gain == /\ prev # NaN /\ cur # NaN
                        /\ cur[1] * prev[2] - prev[1] * cur[2]
                               >= BreakoutThreshold * cur[2] * prev[2]
            IN  Cell(k, "BREAKOUT") = IF gain THEN 1 ELSE 0

\* Player 1 rated 3, 8, missing (a rise of exactly 5, then no current
\* value) next to player 2 rated 8, 8
C2_Witness ==
    /\ LabelDone
    /\ \E a, b, c \in Rows :
          /\ Cell(a, "E_NET_RATING_PREV") = Num(3) /\ Cell(a, "E_NET_RATING") = Num(8)
          /\ Cell(a, "BREAKOUT") = 1
          /\ Cell(b, "PLAYER_ID") = 2
          /\ Cell(b, "E_NET_RATING_PREV") = Num(8) /\ Cell(b, "E_NET_RATING") = Num(8)
          /\ Cell(b, "BREAKOUT") = 0
          /\ Cell(c, "PLAYER_ID") = 1
          /\ Cell(c, "E_NET_RATING_PREV") = Num(8) /\ Cell(c, "E_NET_RATING") = NaN
          /\ Cell(c, "BREAKOUT") = 0

\* C3: after label_breakouts, a row without E_NET_RATING_PREV has
\* BREAKOUT 0 and BREAKOUT_MAGNITUDE 0.0, and a row with it has
\* BREAKOUT_MAGNITUDE equal to E_NET_RATING_CHANGE_1YR.
C3_Magnitude ==
    LabelDone =>
        \A k \in Rows :
            IF Cell(k, "E_NET_RATING_PREV") = NaN
            THEN Cell(k, "BREAKOUT") = 0 /\ Cell(k, "BREAKOUT_MAGNITUDE") = <<0, 1>>
            ELSE Cell(k, "BREAKOUT_MAGNITUDE") = Cell(k, "E_NET_RATING_CHANGE_1YR")

\* A first season with a rating of 8, followed by a drop to 0
C3_Witness ==
    /\ LabelDone
    /\ \E a, b \in Rows :
          /\ Cell(a, "E_NET_RATING_PREV") = NaN /\ Cell(a, "E_NET_RATING") = Num(8)
          /\ Cell(a, "BREAKOUT_MAGNITUDE") = Num(0)
          /\ Cell(b, "PLAYER_ID") = Cell(a, "PLAYER_ID")
          /\ Cell(b, "E_NET_RATING_PREV") = Num(8) /\ Cell(b, "E_NET_RATING") = Num(0)
          /\ Cell(b, "BREAKOUT_MAGNITUDE") = Num(-8)

\* C4: after calculate_lag_features, _GROWTH_RATE is missing wherever
\* _PREV is zero or missing, and where _PREV is present and not zero and
\* the current value is present it is the finite number
\* (current - _PREV) / |_PREV|; the step itself never raises.
C4_GrowthRate ==
    /\ pc = "crashed" => LagDone
    /\ LagDone =>
        \A k \in Rows, m \in Lagged :
            LET cur == Cell(k, m)
                prev == Cell(k, m \o "_PREV")
                g == Cell(k, m \o "_GROWTH_RATE")
            IN  IF prev = NaN THEN g = NaN
                ELSE IF prev[1] = 0 THEN g = NaN
                ELSE IF cur = NaN THEN TRUE
                ELSE /\ g # NaN /\ g[2] > 0
                     /\ g[1] * cur[2] * AbsInt(prev[1])
                            = g[2] * (cur[1] * prev[2] - prev[1] * cur[2])

\* Ratings -5, 0, 3 in a row: growth +1 after the negative one, missing
\* after the zero
C4_Witness ==
    /\ LagDone
    /\ \E a, b \in Rows :
          /\ Cell(a, "E_NET_RATING_PREV") = Num(-5) /\ Cell(a, "E_NET_RATING") = Num(0)
          /\ Cell(a, "E_NET_RATING_GROWTH_RATE") = Num(1)
          /\ Cell(b, "E_NET_RATING_PREV") = Num(0) /\ Cell(b, "E_NET_RATING") = Num(3)
          /\ Cell(b, "E_NET_RATING_GROWTH_RATE") = NaN

\* The season in progress has been merged and not yet recorded
Merged == pc = "record" /\ season_data # None

\* MIN * GP of a league row against the 500 minutes
TotalBelow(r) == r["MIN"][1] * r["GP"][1] < MinMinutes * r["MIN"][2] * r["GP"][2]

\* C5: the PLAYER_IDs of a merged season are exactly those present in
\* both the league stats and the estimated metrics handed to
\* merge_season_data, and every merged row carries the season passed in.
C5_InnerJoin ==
    Merged =>
        /\ PlayerIds(season_data) = PlayerIds(league_stats) \cap PlayerIds(estimated_metrics)
        /\ \A k \in 1..Len(season_data.rows) : season_data.rows[k]["SEASON"] = seasons[i]
        /\ "SEASON" \in season_data.cols

\* Both players in the league stats, only player 1 in the metrics
C5_Witness ==
    /\ Merged
    /\ PlayerIds(league_stats) = {1, 2}
    /\ PlayerIds(estimated_metrics) = {1}
    /\ PlayerIds(season_data) = {1}

\* C6: no row of the provider's league table with MIN * GP < 500 is in
\* the merged season, and every row with MIN * GP >= 500 whose player has
\* an estimated-metrics row is.
C6_MinutesFilter ==
    Merged =>
        \A k \in 1..Len(raw_df.rows) :
            LET r == raw_df.rows[k]
            IN  IF TotalBelow(r)
                THEN r["PLAYER_ID"] \notin PlayerIds(season_data)
                ELSE r["PLAYER_ID"] \in PlayerIds(estimated_metrics)
                        => r["PLAYER_ID"] \in PlayerIds(season_data)

\* Player 1 with 490 minutes and player 2 with exactly 500, both with
\* metrics: only player 2 is merged
C6_Witness ==
    /\ Merged
    /\ \E a, b \in 1..Len(raw_df.rows) :
          /\ raw_df.rows[a]["PLAYER_ID"] = 1 /\ TotalBelow(raw_df.rows[a])
          /\ raw_df.rows[b]["PLAYER_ID"] = 2
          /\ FMul(raw_df.rows[b]["MIN"], raw_df.rows[b]["GP"]) = Num(MinMinutes)
    /\ PlayerIds(estimated_metrics) = {1, 2}
    /\ PlayerIds(season_data) = {2}

\* C7: a run that merges no season ends with a non-zero exit status
\* without lag features, labels or a final dataset; a run that merges at
\* least one season ends having done the three steps once each, in that
\* order, and no step starts before the last season is processed.
C7_RunOutcome ==
    /\ steps # << >> => i = Len(seasons) + 1
    /\ pc \in {"exited", "done", "crashed"} =>
          IF Len(all_data) = 0
          THEN exit_status # "0" /\ steps = << >> /\ output_file = None
          ELSE steps = <<"lag", "label", "save">> /\ output_file # None

\* C8, while the loop runs: once a season has succeeded the progress file
\* is the concatenation of the accumulator.
C8_FileIsAccumulator ==
    Len(all_data) > 0 => progress_file = Concat(all_data)

\* C8, on closing a season: a merged season is appended and the file
\* rewritten with the whole accumulator; a failed season changes neither
\* and the loop goes on to the next season.
C8_SeasonStep ==
    pc = "record" /\ pc' # "record" =>
        /\ i' = i + 1
        /\ pc' = IF i < Len(seasons) THEN "call_league" ELSE "collected"
        /\ IF league_stats = None \/ estimated_metrics = None
           THEN all_data' = all_data /\ progress_file' = progress_file
           ELSE /\ all_data' = Append(all_data, season_data)
                /\ progress_file' = Concat(all_data')

\* C8: with save_progress on, after the first successful season the
\* progress file always holds the concatenation, in season order, of the
\* merged tables of the seasons that succeeded; a failed season leaves
\* accumulator and file as they are and the next season is processed.
C8_Progress == []C8_FileIsAccumulator /\ [][C8_SeasonStep]_vars

\* The first season failed, the second was merged and written
C8_Witness ==
    /\ pc = "collected"
    /\ Len(seasons) = 2
    /\ Len(all_data) = 1
    /\ Len(all_data[1].rows) = 2
    /\ all_data[1].rows[1]["SEASON"] = seasons[2]
    /\ progress_file = all_data[1]

\* C9: whatever allow-listed columns other than PLAYER_ID the provider
\* leaves out, merge, lag features and labels complete without raising.
C9_SchemaTolerance == pc # "crashed"

Failures == Cardinality({k \in 1..Len(outcomes) : outcomes[k] = "fail"})
Min(a, b) == IF a < b THEN a ELSE b

\* C10, in every state of a fetch call: at most retry_count attempts, none
\* after a success, 5 * k seconds slept after the k-th failure when
\* k < retry_count, and None returned exactly when all attempts failed.
C10_FetchState ==
    /\ Len(outcomes) <= retry_count
    /\ \A k \in 1..(Len(outcomes) - 1) : outcomes[k] = "fail"
    /\ sleeps = [k \in 1..Min(Failures, retry_count - 1) |-> BackoffBase * k]
    /\ pc \in {"league_attempt", "metrics_attempt"} =>
          Failures = Len(outcomes) /\ Len(outcomes) < retry_count /\ attempt = Len(outcomes)
    /\ pc = "call_metrics" =>
          /\ Len(outcomes) >= 1
          /\ league_stats = None <=> Failures = retry_count
          /\ league_stats # None => IsFrame(league_stats)
    /\ pc = "merge" =>
          /\ Len(outcomes) >= 1
          /\ estimated_metrics = None <=> Failures = retry_count
          /\ estimated_metrics # None => IsFrame(estimated_metrics)

====
